---- MODULE Spec2Model ----
(***************************************************************************)
(* A model of AIAgentLoadBalancer (src/utils/ai_agent_load_balancer.py):   *)
(* the capacity table, the allocation ledger, the live task list and the   *)
(* history, with assign_task, complete_task and auto_scale as actions.     *)
(***************************************************************************)
EXTENDS Integers, Sequences, FiniteSets, TLC

(* ------------------------------ bounds -------------------------------- *)

\* Largest count one request asks of one pool.
MaxCount == 2
\* Most tasks ever assigned successfully in one behaviour (live + history).
MaxTasks == 2
\* Latest reading of the external clock.
MaxTime == 1

\* Pool names of the capacity table (two of the default names).
Pools == {"research_agents", "development_agents"}
\* A pool name that is in no capacity table.
UnknownPool == "ghost_agents"
AllPools == Pools \cup {UnknownPool}
\* Capacity tables the constructor is given: <<research, development>>.
CapTables ==
    {[research_agents |-> c[1], development_agents |-> c[2]] :
        c \in {<<0, 0>>, <<2, 1>>, <<5, 0>>, <<10, 0>>}}
\* Larger tables, for the scaling arithmetic.
WideCapTables ==
    {[research_agents |-> c[1], development_agents |-> c[2]] :
        c \in {<<20, 0>>, <<90, 0>>}}
\* The tables the non-serialized program is started from.
SplitCapTables ==
    {[research_agents |-> c[1], development_agents |-> c[2]] :
        c \in {<<2, 1>>}}
\* Tables of one-agent pools, which int(c * 1.5) leaves at one agent.
UnitCapTables ==
    {[research_agents |-> c[1], development_agents |-> c[2]] :
        c \in {<<1, 0>>, <<1, 1>>}}
TaskNames == {"T1", "T2"}
\* required_agents: a dict from pool names to positive counts.
Requests == UNION {[S -> 1..MaxCount] : S \in SUBSET AllPools}
EmptyReq == [p \in {} |-> 0]

(* --------------------------- program constants ------------------------ *)

ScaleUpThreshold == 80
ScaleDownThreshold == 30
SafetyMargin == 2
\* Task.end_time of a task that has not ended (None).
NoTime == 0

(* ------------------------------- state -------------------------------- *)

VARIABLES
    self,    \* the AIAgentLoadBalancer: agent_capacity, agent_allocation,
             \* task_queue, completed_tasks, auto_scaling_ready
    clock,   \* the latest reading of datetime.now(); readings never go
             \* back
    last,    \* the last call: its name and arguments, what it returned and
             \* which branch it printed
    inflight \* an assign_task call between its availability check and its
             \* return, and whether another call has ever run inside one

vars == <<self, clock, last, inflight>>

(* ------------------------------ helpers ------------------------------- *)

Max(a, b) == IF a >= b THEN a ELSE b

\* A variant that picks the largest element.
Min_largest(S) == CHOOSE x \in S : \A y \in S : x >= y

Min(S) == CHOOSE x \in S : \A y \in S : x <= y

\* dict.get(k, default)
Get(d, k, default) == IF k \in DOMAIN d THEN d[k] ELSE default

\* d[k] = v
Put(d, k, v) == [x \in DOMAIN d \cup {k} |-> IF x = k THEN v ELSE d[x]]

RECURSIVE SumOver(_, _)
SumOver(d, S) ==
    IF S = {} THEN 0
    ELSE LET k == CHOOSE x \in S : TRUE IN d[k] + SumOver(d, S \ {k})

\* sum(d.values())
SumValues(d) == SumOver(d, DOMAIN d)

RECURSIVE Pow2Le(_, _)
\* The largest p * 2^i that is <= v.
Pow2Le(p, v) == IF 2 * p <= v THEN Pow2Le(2 * p, v) ELSE p

(* ------------------------- availability, ledger ----------------------- *)

get_total_capacity(s) == SumValues(s.agent_capacity)

\* A variant that forgets what is already allocated.
get_available_agents_ignoring_allocation(s, agent_type) ==
    Max(0, Get(s.agent_capacity, agent_type, 0))

get_available_agents(s, agent_type) ==
    Max(0, Get(s.agent_capacity, agent_type, 0)
           - Get(s.agent_allocation, agent_type, 0))

\* A variant that allocates the default count of one agent.
allocate_agent_one(s, agent_type, count) ==
    IF get_available_agents(s, agent_type) >= count
    THEN [s EXCEPT !.agent_allocation =
              Put(@, agent_type, Get(@, agent_type, 0) + 1)]
    ELSE s

\* The balancer after allocate_agent(agent_type, count).
allocate_agent(s, agent_type, count) ==
    IF get_available_agents(s, agent_type) >= count
    THEN [s EXCEPT !.agent_allocation =
              Put(@, agent_type, Get(@, agent_type, 0) + count)]
    ELSE s

\* A variant that clamps with min where the code clamps with max.
release_agent_min(s, agent_type, count) ==
    [s EXCEPT !.agent_allocation =
        Put(@, agent_type,
            IF Get(@, agent_type, 0) - count <= 0
            THEN Get(@, agent_type, 0) - count ELSE 0)]

\* A variant that releases the default count of one agent.
release_agent_one(s, agent_type, count) ==
    [s EXCEPT !.agent_allocation =
        Put(@, agent_type, Max(0, Get(@, agent_type, 0) - 1))]

\* A variant that frees the whole pool.
release_agent_whole_pool(s, agent_type, count) ==
    [s EXCEPT !.agent_allocation = Put(@, agent_type, 0)]

\* A variant that hands the released agents back, out of the capacity.
release_agent_shrinking(s, agent_type, count) ==
    [s EXCEPT !.agent_allocation =
                  Put(@, agent_type, Max(0, Get(@, agent_type, 0) - count)),
              !.agent_capacity =
                  Put(@, agent_type, Max(0, Get(@, agent_type, 0) - count))]

\* The balancer after release_agent(agent_type, count).
release_agent(s, agent_type, count) ==
    [s EXCEPT !.agent_allocation =
        Put(@, agent_type, Max(0, Get(@, agent_type, 0) - count))]

(* ----------------------------- utilization ---------------------------- *)

\* A variant that reports the share of the capacity that is free.
calculate_utilization_free_share(s) ==
    IF get_total_capacity(s) = 0 THEN <<0, 1>>
    ELSE <<(get_total_capacity(s) - SumValues(s.agent_allocation)) * 100,
           get_total_capacity(s)>>

\* total_allocated / total_capacity * 100 as the fraction <<num, den>>, and
\* 0.0 as <<0, 1>>.  The double the code computes compares with 80 and with
\* 30 as this fraction does, for every total capacity up to 1500.
calculate_utilization(s) ==
    IF get_total_capacity(s) = 0 THEN <<0, 1>>
    ELSE <<SumValues(s.agent_allocation) * 100, get_total_capacity(s)>>

\* utilization > n, utilization < n
FracGT(u, n) == u[1] > n * u[2]
FracLT(u, n) == u[1] < n * u[2]

\* A variant that scales up at 80 already.
should_scale_up_inclusive(s) ==
    /\ ~FracLT(calculate_utilization(s), ScaleUpThreshold)
    /\ s.auto_scaling_ready

should_scale_up(s) ==
    FracGT(calculate_utilization(s), ScaleUpThreshold) /\ s.auto_scaling_ready

\* A variant that scales down wherever it does not scale up: no band between.
should_scale_down_no_band(s) ==
    FracLT(calculate_utilization(s), ScaleUpThreshold)

\* A variant that scales down at 30 still.
should_scale_down_inclusive(s) ==
    ~FracGT(calculate_utilization(s), ScaleDownThreshold)

should_scale_down(s) ==
    FracLT(calculate_utilization(s), ScaleDownThreshold)

(* ------------------------------ auto_scale ---------------------------- *)

\* int(c * 1.5): 1.5 is a double and the product is exact.
IntTimes15(c) == (3 * c) \div 2

\* int(c * 0.7) in double arithmetic.  The double 0.7 is 0.7 - 0.4 * 2^-53,
\* so the exact product lies 0.4 * c * 2^-53 below 7c/10.  When 7c/10 is no
\* integer the truncation is floor(7c/10).  When it is an integer v, with
\* 2^k <= v < 2^(k+1), the product rounds to v unless it lies more than
\* half an ulp, 2^(k-53), below v, that is unless 4v > 7 * 2^k; then it
\* rounds to the double below v and truncates to v - 1 (c = 90 gives 62).
IntTimes07(c) ==
    LET v == (7 * c) \div 10 IN
    IF c % 10 = 0 /\ v > 0 /\ 4 * v > 7 * Pow2Le(1, v) THEN v - 1 ELSE v

ScaledUp(s) ==
    [t \in DOMAIN s.agent_capacity |-> IntTimes15(s.agent_capacity[t])]

\* A variant without the margin above the allocation.
ScaledDown_no_margin(s) ==
    [t \in DOMAIN s.agent_capacity |-> IntTimes07(s.agent_capacity[t])]

ScaledDown(s) ==
    [t \in DOMAIN s.agent_capacity |->
        Max(Get(s.agent_allocation, t, 0) + SafetyMargin,
            IntTimes07(s.agent_capacity[t]))]

\* The balancer after auto_scale(), and the branch it printed.
auto_scale(s) ==
    IF should_scale_up(s)
    THEN [self |-> [s EXCEPT !.agent_capacity = ScaledUp(s)], out |-> "up"]
    ELSE IF should_scale_down(s)
    THEN [self |-> [s EXCEPT !.agent_capacity = ScaledDown(s)],
          out |-> "down"]
    ELSE [self |-> s, out |-> "none"]

(* ------------------------------ assign_task --------------------------- *)

\* A variant that looks only at the pools of the capacity table.
can_allocate_known_only(s, required_agents) ==
    \A t \in DOMAIN required_agents \cap DOMAIN s.agent_capacity :
        get_available_agents(s, t) >= required_agents[t]

\* A variant that is content with one pool having enough.
can_allocate_any(s, required_agents) ==
    \E t \in DOMAIN required_agents :
        get_available_agents(s, t) >= required_agents[t]

can_allocate(s, required_agents) ==
    \A t \in DOMAIN required_agents :
        get_available_agents(s, t) >= required_agents[t]

RECURSIVE AllocateAll(_, _, _)
\* for agent_type, count in required_agents.items(): allocate_agent(...)
AllocateAll(s, required_agents, S) ==
    IF S = {} THEN s
    ELSE LET t == CHOOSE x \in S : TRUE IN
         AllocateAll(allocate_agent(s, t, required_agents[t]),
                     required_agents, S \ {t})

NewTask(task_name, required_agents, now) ==
    [name |-> task_name, agents |-> required_agents, start_time |-> now,
     status |-> "in_progress", end_time |-> NoTime]

\* The balancer after assign_task(task_name, required_agents), and what the
\* call returned.
assign_task(s, task_name, required_agents, now) ==
    IF ~can_allocate(s, required_agents)
    THEN [self |-> s, ret |-> FALSE]
    ELSE LET a == AllocateAll(s, required_agents, DOMAIN required_agents) IN
         [self |-> [a EXCEPT !.task_queue =
                       Append(@, NewTask(task_name, required_agents, now))],
          ret |-> TRUE]

(* ----------------------------- complete_task -------------------------- *)

RECURSIVE ReleaseAll(_, _, _)
\* for agent_type, count in task.agents.items(): release_agent(...)
ReleaseAll(s, agents, S) ==
    IF S = {} THEN s
    ELSE LET t == CHOOSE x \in S : TRUE IN
         ReleaseAll(release_agent(s, t, agents[t]), agents, S \ {t})

\* A variant that takes every live task for a match.
Matching_any_name(queue, task_name) == 1..Len(queue)

\* The indices of the queue whose task has the name.
Matching(queue, task_name) ==
    {i \in 1..Len(queue) : queue[i].name = task_name}

\* A variant that drops the last element, as list.pop() does.
ListRemove_last(queue, x) == SubSeq(queue, 1, Len(queue) - 1)

\* list.remove(x): the list without its first element equal to x.
ListRemove(queue, x) ==
    LET j == Min({i \in 1..Len(queue) : queue[i] = x}) IN
    [i \in 1..(Len(queue) - 1) |-> IF i < j THEN queue[i] ELSE queue[i + 1]]

\* The balancer after complete_task(task_name), and the branch it printed.
complete_task(s, task_name, now) ==
    IF Matching(s.task_queue, task_name) = {}
    THEN [self |-> s, out |-> "none"]
    ELSE LET i == Min(Matching(s.task_queue, task_name))
             task == s.task_queue[i]
             done == [task EXCEPT !.status = "completed", !.end_time = now]
             r == ReleaseAll(s, task.agents, DOMAIN task.agents)
         IN
         [self |-> [r EXCEPT
                      !.completed_tasks = Append(@, done),
                      !.task_queue =
                          ListRemove([@ EXCEPT ![i] = done], done)],
          out |-> "completed"]

(* ------------------------------- Init --------------------------------- *)

NoCall == [op |-> "init", name |-> "", req |-> EmptyReq, ret |-> "none",
           out |-> "none"]

\* No assign_task call is under way.
Idle == [active |-> FALSE, name |-> "", req |-> EmptyReq, todo |-> {},
         interleaved |-> FALSE]

\* AIAgentLoadBalancer(agent_capacity=cap) after __post_init__.
NewBalancer(cap, ready) ==
    [agent_capacity |-> cap,
     agent_allocation |-> [p \in DOMAIN cap |-> 0],
     task_queue |-> <<>>,
     completed_tasks |-> <<>>,
     auto_scaling_ready |-> ready]

Init ==
    /\ \E cap \in CapTables, ready \in BOOLEAN :
          self = NewBalancer(cap, ready)
    /\ clock = 1
    /\ last = NoCall
    /\ inflight = Idle

(* ------------------------------ actions ------------------------------- *)

\* The tasks assigned so far, the one under way included.
TaskCount ==
    Len(self.task_queue) + Len(self.completed_tasks)
        + (IF inflight.active THEN 1 ELSE 0)

\* One whole call of assign_task.
AssignCall ==
    /\ TaskCount < MaxTasks
    /\ \E n \in TaskNames, r \in Requests, now \in clock..MaxTime :
          LET a == assign_task(self, n, r, now) IN
          /\ self' = a.self
          /\ clock' = IF a.ret THEN now ELSE clock
          /\ last' = [op |-> "assign_task", name |-> n, req |-> r,
                      ret |-> IF a.ret THEN "true" ELSE "false",
                      out |-> IF a.ret THEN "assigned" ELSE "insufficient"]

\* One whole call of complete_task.
CompleteCall ==
    \E n \in TaskNames, now \in clock..MaxTime :
        LET c == complete_task(self, n, now) IN
        /\ self' = c.self
        /\ clock' = IF c.out = "completed" THEN now ELSE clock
        /\ last' = [op |-> "complete_task", name |-> n, req |-> EmptyReq,
                    ret |-> "none", out |-> c.out]

\* One whole call of auto_scale.
ScaleCall ==
    LET a == auto_scale(self) IN
    /\ self' = a.self
    /\ clock' = clock
    /\ last' = [op |-> "auto_scale", name |-> "", req |-> EmptyReq,
                ret |-> "none", out |-> a.out]

\* The single-owner program: every call runs from start to end alone.
AssignStep == AssignCall /\ UNCHANGED inflight
CompleteStep == CompleteCall /\ UNCHANGED inflight
ScaleStep == ScaleCall /\ UNCHANGED inflight

Next == AssignStep \/ CompleteStep \/ ScaleStep

Spec == Init /\ [][Next]_vars

\* The same program started from the larger capacity tables as well.
InitWide ==
    /\ \E cap \in CapTables \cup WideCapTables, ready \in BOOLEAN :
          self = NewBalancer(cap, ready)
    /\ clock = 1
    /\ last = NoCall
    /\ inflight = Idle

SpecWide == InitWide /\ [][Next]_vars

\* The same program started from tables of one-agent pools.
InitUnit ==
    /\ \E cap \in UnitCapTables, ready \in BOOLEAN :
          self = NewBalancer(cap, ready)
    /\ clock = 1
    /\ last = NoCall
    /\ inflight = Idle

SpecUnit == InitUnit /\ [][Next]_vars

(* ------------------- calls that run into each other ------------------ *)

\* The program with callers that are not serialized: one assign_task call
\* runs statement by statement (the availability check, one allocate_agent
\* per entry of the request, the append of the task), and whole calls of
\* assign_task, complete_task and auto_scale run between its statements.

\* inflight after another call has run: it was inside the call under way.
Mark == [inflight EXCEPT !.interleaved = @ \/ inflight.active]

\* can_allocate = all(...); if not can_allocate: return False
BeginAssign ==
    /\ ~inflight.active
    /\ TaskCount < MaxTasks
    /\ \E n \in TaskNames, r \in Requests :
          IF ~can_allocate(self, r)
          THEN /\ last' = [op |-> "assign_task", name |-> n, req |-> r,
                           ret |-> "false", out |-> "insufficient"]
               /\ UNCHANGED <<self, clock, inflight>>
          ELSE /\ inflight' = [inflight EXCEPT !.active = TRUE, !.name = n,
                                               !.req = r, !.todo = DOMAIN r]
               /\ UNCHANGED <<self, clock, last>>

\* self.allocate_agent(agent_type, count), for the next entry
AllocateNext ==
    /\ inflight.active
    /\ \E t \in inflight.todo :
          /\ self' = allocate_agent(self, t, inflight.req[t])
          /\ inflight' = [inflight EXCEPT !.todo = @ \ {t}]
    /\ UNCHANGED <<clock, last>>

\* task = Task(...); self.task_queue.append(task); return True
FinishAssign ==
    /\ inflight.active
    /\ inflight.todo = {}
    /\ \E now \in clock..MaxTime :
          /\ self' = [self EXCEPT !.task_queue =
                         Append(@, NewTask(inflight.name, inflight.req, now))]
          /\ clock' = now
    /\ last' = [op |-> "assign_task", name |-> inflight.name,
                req |-> inflight.req, ret |-> "true", out |-> "assigned"]
    /\ inflight' = [Idle EXCEPT !.interleaved = inflight.interleaved]

\* Whole calls, which may fall between the statements of the call under way.
OtherAssign == inflight.active /\ AssignCall /\ inflight' = Mark
OtherComplete == CompleteCall /\ inflight' = Mark
OtherScale == ScaleCall /\ inflight' = Mark

NextSplit ==
    \/ BeginAssign
    \/ AllocateNext
    \/ FinishAssign
    \/ OtherAssign
    \/ OtherComplete
    \/ OtherScale

InitSplit ==
    /\ \E cap \in SplitCapTables, ready \in BOOLEAN :
          self = NewBalancer(cap, ready)
    /\ clock = 1
    /\ last = NoCall
    /\ inflight = Idle

SpecSplit == InitSplit /\ [][NextSplit]_vars

(* ------------------------------- claims ------------------------------- *)

\* Every pool name a table or a request can hold.
KnownNames == DOMAIN self.agent_capacity \cup DOMAIN self.agent_allocation
Allocated(s, p) == Get(s.agent_allocation, p, 0)
Capacity(s, p) == Get(s.agent_capacity, p, 0)
\* Whether the request asks some pool for more than capacity - allocated.
Short(s, r) == \E p \in DOMAIN r : r[p] > Max(0, Capacity(s, p) - Allocated(s, p))

RECURSIVE LiveSum(_, _, _)
\* The sum of the first n live tasks' reserved counts for pool p.
LiveSum(queue, p, n) ==
    IF n = 0 THEN 0
    ELSE Get(queue[n].agents, p, 0) + LiveSum(queue, p, n - 1)

\* C1: after any sequence of assign_task, complete_task and auto_scale
\* calls, every pool p satisfies 0 <= allocated[p] <= capacity[p].
C1_AllocatedWithinCapacity ==
    \A p \in KnownNames :
        0 <= Allocated(self, p) /\ Allocated(self, p) <= Capacity(self, p)

\* A scale-down has just run while one task is live and one is in history.
C1_Witness ==
    /\ last.op = "auto_scale" /\ last.out = "down"
    /\ Len(self.completed_tasks) >= 1
    /\ \E p \in KnownNames : Allocated(self, p) > 0

\* C2: assign_task is all-or-nothing: when some entry of the request asks
\* for more than its pool has available, the call returns false and leaves
\* allocations, capacities, the live list and the history as they were.
C2_AssignAllOrNothing ==
    \A n \in TaskNames, r \in Requests, now \in clock..MaxTime :
        Short(self, r) =>
            /\ assign_task(self, n, r, now).ret = FALSE
            /\ assign_task(self, n, r, now).self = self

\* A call has just failed whose request had an entry that fitted and a
\* short entry for a pool of the capacity table.
C2_Witness ==
    /\ last.op = "assign_task" /\ last.ret = "false"
    /\ \E p, q \in DOMAIN last.req :
          /\ q \in DOMAIN self.agent_capacity
          /\ last.req[p] <= Capacity(self, p) - Allocated(self, p)
          /\ last.req[q] > Capacity(self, q) - Allocated(self, q)
          /\ Allocated(self, q) > 0

\* C3: in every reachable state, allocated[p] is the sum over the live
\* tasks of the count each reserved for p.
C3_LedgerIsSumOfLive ==
    \A p \in KnownNames \cup AllPools :
        Allocated(self, p) =
            LiveSum(self.task_queue, p, Len(self.task_queue))

\* A task that reserved from a pool has completed while another task that
\* reserved from the same pool is live.
C3_Witness ==
    /\ last.op = "complete_task" /\ last.out = "completed"
    /\ Len(self.task_queue) = 1
    /\ \E p \in DOMAIN self.task_queue[1].agents :
          p \in DOMAIN self.completed_tasks[1].agents

\* No live task has the name.
NoLive(s, n) == \A i \in 1..Len(s.task_queue) : s.task_queue[i].name # n

\* C4 as stated: for any name T and reservation R, a successful
\* assign_task(T, R) followed at once by complete_task(T) leaves every
\* pool's allocated value as it was before the assign_task.
C4_RoundTripAnyName ==
    \A n \in TaskNames, r \in Requests, now \in clock..MaxTime :
        LET a == assign_task(self, n, r, now) IN
        a.ret =>
            complete_task(a.self, n, now).self.agent_allocation
                = self.agent_allocation

\* C4 as amended: the round trip restores every pool's allocated value when
\* no live task has the name T at the time of the assign_task.
C4_RoundTripFreshName ==
    \A n \in TaskNames, r \in Requests, now \in clock..MaxTime :
        LET a == assign_task(self, n, r, now) IN
        (a.ret /\ NoLive(self, n)) =>
            complete_task(a.self, n, now).self.agent_allocation
                = self.agent_allocation

\* Beside a live task of another name, a task of a fresh name reserving two
\* agents of a pool is assigned and completed, and the ledger is as before.
C4_Witness ==
    /\ Len(self.task_queue) >= 1
    /\ \E p \in KnownNames : Allocated(self, p) > 0
    /\ \E n \in TaskNames, r \in Requests, now \in clock..MaxTime :
          LET a == assign_task(self, n, r, now)
              c == complete_task(a.self, n, now)
          IN
          /\ NoLive(self, n) /\ a.ret
          /\ \E p \in DOMAIN r : r[p] = 2
          /\ c.out = "completed"
          /\ c.self.agent_allocation = self.agent_allocation
          /\ Len(c.self.completed_tasks) = Len(self.completed_tasks) + 1

\* C5: complete_task(name) when no live task has the name changes nothing:
\* allocations, capacities, the live list and the history stay as they are,
\* however often it is called.
C5_CompleteUnknownIsNoOp ==
    \A n \in TaskNames, now \in clock..MaxTime :
        NoLive(self, n) =>
            /\ complete_task(self, n, now).self = self
            /\ complete_task(complete_task(self, n, now).self, n, now).self
                   = self

\* complete_task has just been called with the name of a task that is in
\* history and not live, while another task holds a reservation.
C5_Witness ==
    /\ last.op = "complete_task" /\ last.out = "none"
    /\ NoLive(self, last.name)
    /\ \E i \in 1..Len(self.completed_tasks) :
          /\ self.completed_tasks[i].name = last.name
          /\ self.completed_tasks[i].status = "completed"
    /\ Len(self.task_queue) >= 1
    /\ \E p \in KnownNames : Allocated(self, p) > 0

\* C6: assign_task(name, R) returns true exactly when every pool of R has
\* max(0, capacity - allocated) >= count; on success allocated grows by
\* count for each pool of R and is unchanged for the others, and one task
\* with reservation R and status in_progress is appended to the live list.
C6_AssignEffect ==
    \A n \in TaskNames, r \in Requests, now \in clock..MaxTime :
        LET a == assign_task(self, n, r, now) IN
        /\ a.ret = ~Short(self, r)
        /\ a.ret =>
              /\ \A p \in KnownNames \cup AllPools :
                    Allocated(a.self, p) = Allocated(self, p) + Get(r, p, 0)
              /\ Len(a.self.task_queue) = Len(self.task_queue) + 1
              /\ SubSeq(a.self.task_queue, 1, Len(self.task_queue))
                    = self.task_queue
              /\ LET t == a.self.task_queue[Len(a.self.task_queue)] IN
                    /\ t.name = n
                    /\ t.agents = r
                    /\ t.status = "in_progress"

\* A second task has just been assigned with a request for two pools, one
\* of them asked for two agents.
C6_Witness ==
    /\ last.op = "assign_task" /\ last.ret = "true"
    /\ Len(self.task_queue) = 2
    /\ self.task_queue[2].agents = last.req
    /\ Cardinality(DOMAIN last.req) = 2
    /\ \E p \in DOMAIN last.req : last.req[p] = 2

TotalAllocated(s) == SumValues(s.agent_allocation)
TotalCapacity(s) == SumValues(s.agent_capacity)
\* utilization > 80, utilization < 30 (utilization is 0 at no capacity)
Over80(s) == TotalCapacity(s) # 0 /\ 100 * TotalAllocated(s) > 80 * TotalCapacity(s)
Under30(s) == TotalCapacity(s) = 0 \/ 100 * TotalAllocated(s) < 30 * TotalCapacity(s)

\* C7: auto_scale takes the scale-up branch exactly when utilization > 80
\* and the auto-scaling flag is on; every capacity c then becomes
\* floor(3c/2).  With utilization > 80 and the flag off capacities stay.
C7_ScaleUp ==
    LET st == auto_scale(self) IN
    /\ (st.out = "up") = (Over80(self) /\ self.auto_scaling_ready)
    /\ st.out = "up" =>
          st.self.agent_capacity =
              [p \in DOMAIN self.agent_capacity |->
                  (3 * self.agent_capacity[p]) \div 2]
    /\ (Over80(self) /\ ~self.auto_scaling_ready) =>
          st.self.agent_capacity = self.agent_capacity

\* A scale-up has just taken the table <<2, 1>> to <<3, 1>>, truncating 1.5.
C7_Witness ==
    /\ last.op = "auto_scale" /\ last.out = "up"
    /\ self.agent_capacity["research_agents"] = 3
    /\ self.agent_capacity["development_agents"] = 1
    /\ self.auto_scaling_ready

\* C8: auto_scale takes the scale-down branch exactly when utilization < 30,
\* whatever the flag; every capacity then becomes
\* max(allocated + 2, floor(capacity * 0.7)).
C8_ScaleDown ==
    LET st == auto_scale(self) IN
    /\ (st.out = "down") = Under30(self)
    /\ st.out = "down" =>
          st.self.agent_capacity =
              [p \in DOMAIN self.agent_capacity |->
                  Max(Allocated(self, p) + 2,
                      (7 * self.agent_capacity[p]) \div 10)]

\* C9: with 30 <= utilization <= 80 auto_scale changes nothing, and an
\* invocation applies at most one of the two branches.
C9_NoActionBetween ==
    LET st == auto_scale(self) IN
    /\ (~Over80(self) /\ ~Under30(self)) =>
          (st.self = self /\ st.out = "none")
    /\ st.out = "up" =>
          /\ ~Under30(self)
          /\ st.self.agent_capacity =
                [p \in DOMAIN self.agent_capacity |->
                    (3 * self.agent_capacity[p]) \div 2]
    /\ st.out = "down" => ~(Over80(self) /\ self.auto_scaling_ready)
    /\ st.out = "none" => st.self = self

\* auto_scale has just left the table alone at a utilization of exactly 30.
C9_Witness ==
    /\ last.op = "auto_scale" /\ last.out = "none"
    /\ TotalCapacity(self) > 0
    /\ 100 * TotalAllocated(self) = 30 * TotalCapacity(self)

\* C10: after a scale-down every pool has allocated <= capacity and at least
\* 2 agents available, and the live tasks and their reservations are as
\* they were.
C10_ScaleDownKeepsReservations ==
    LET st == auto_scale(self) IN
    st.out = "down" =>
        /\ \A p \in DOMAIN st.self.agent_capacity \cup KnownNames :
              /\ Allocated(st.self, p) <= Capacity(st.self, p)
              /\ Capacity(st.self, p) - Allocated(st.self, p) >= 2
        /\ st.self.task_queue = self.task_queue
        /\ st.self.agent_allocation = self.agent_allocation

\* A scale-down has just left a pool with a live reservation exactly 2
\* agents above its allocation.
C10_Witness ==
    /\ last.op = "auto_scale" /\ last.out = "down"
    /\ Len(self.task_queue) >= 1
    /\ \E p \in KnownNames :
          /\ Allocated(self, p) > 0
          /\ Capacity(self, p) = Allocated(self, p) + 2

\* The list without its i-th element.
Without(queue, i) ==
    [j \in 1..(Len(queue) - 1) |-> IF j < i THEN queue[j] ELSE queue[j + 1]]

\* C11: a task enters the live list only by a successful assign_task, stays
\* there unchanged across every other call, leaves it only by a
\* complete_task of its name, which appends it to the history as completed,
\* and the history is only ever appended to; live tasks are in_progress and
\* tasks in history are completed.
C11_TaskLifecycle ==
    LET q == self.task_queue
        h == self.completed_tasks
    IN
    /\ \A i \in 1..Len(q) : q[i].status = "in_progress"
    /\ \A i \in 1..Len(h) : h[i].status = "completed"
    /\ auto_scale(self).self.task_queue = q
    /\ auto_scale(self).self.completed_tasks = h
    /\ \A n \in TaskNames, r \in Requests, now \in clock..MaxTime :
          LET a == assign_task(self, n, r, now) IN
          /\ a.self.completed_tasks = h
          /\ IF a.ret
             THEN /\ Len(a.self.task_queue) = Len(q) + 1
                  /\ SubSeq(a.self.task_queue, 1, Len(q)) = q
             ELSE a.self.task_queue = q
    /\ \A n \in TaskNames, now \in clock..MaxTime :
          LET c == complete_task(self, n, now) IN
          IF NoLive(self, n)
          THEN c.self.task_queue = q /\ c.self.completed_tasks = h
          ELSE \E i \in 1..Len(q) :
                  /\ q[i].name = n
                  /\ c.self.task_queue = Without(q, i)
                  /\ c.self.completed_tasks =
                        Append(h, [q[i] EXCEPT !.status = "completed",
                                               !.end_time = now])

\* A task has just been completed and stands in the history as completed
\* while a task of another name is still live and in progress.
C11_Witness ==
    /\ last.op = "complete_task" /\ last.out = "completed"
    /\ Len(self.task_queue) = 1 /\ Len(self.completed_tasks) = 1
    /\ self.completed_tasks[1].name = last.name
    /\ self.completed_tasks[1].status = "completed"
    /\ self.task_queue[1].name # last.name
    /\ self.task_queue[1].status = "in_progress"
    /\ self.task_queue[1].agents # EmptyReq

\* C12: a pool name that is not in the capacity table has 0 available, and
\* an assign_task whose request names such a pool returns false and changes
\* nothing: the pool enters neither table and no other pool is reserved.
C12_UnknownPoolRefused ==
    \A u \in AllPools \ DOMAIN self.agent_capacity :
        /\ get_available_agents(self, u) = 0
        /\ u \notin DOMAIN self.agent_allocation
        /\ \A n \in TaskNames, r \in Requests, now \in clock..MaxTime :
              u \in DOMAIN r =>
                  /\ assign_task(self, n, r, now).ret = FALSE
                  /\ assign_task(self, n, r, now).self = self

\* A request has just been refused that names the unknown pool beside a
\* pool of the table that had enough for its entry.
C12_Witness ==
    /\ last.op = "assign_task" /\ last.ret = "false"
    /\ UnknownPool \in DOMAIN last.req
    /\ UnknownPool \notin DOMAIN self.agent_capacity
    /\ DOMAIN last.req # {UnknownPool}
    /\ \A p \in DOMAIN last.req \ {UnknownPool} :
          last.req[p] <= Capacity(self, p) - Allocated(self, p)

\* C13: as long as no call has run between the availability check and the
\* increments of an assign_task call, allocated[p] is the sum of the live
\* reservations for p whenever no call is under way; with such a call in
\* between, a task can be live whose reservation is not in the ledger.
C13_SerializedCallsKeepLedger ==
    (~inflight.active /\ ~inflight.interleaved) =>
        \A p \in KnownNames \cup AllPools :
            Allocated(self, p) =
                LiveSum(self.task_queue, p, Len(self.task_queue))

\* After a call ran inside an assign_task call, no call is under way and a
\* pool's allocated count is below what its live tasks have reserved.
C13_Witness ==
    /\ ~inflight.active
    /\ inflight.interleaved
    /\ last.op = "assign_task" /\ last.ret = "true"
    /\ \E p \in DOMAIN last.req :
          Allocated(self, p) <
              LiveSum(self.task_queue, p, Len(self.task_queue))

\* C14: assign_task and complete_task, successful or not, never change any
\* pool's capacity; auto_scale, whichever branch it takes, never changes any
\* pool's allocated value, the live task list or the history.
C14_FrameConditions ==
    /\ \A n \in TaskNames, r \in Requests, now \in clock..MaxTime :
          assign_task(self, n, r, now).self.agent_capacity
              = self.agent_capacity
    /\ \A n \in TaskNames, now \in clock..MaxTime :
          complete_task(self, n, now).self.agent_capacity
              = self.agent_capacity
    /\ auto_scale(self).self.agent_allocation = self.agent_allocation
    /\ auto_scale(self).self.task_queue = self.task_queue
    /\ auto_scale(self).self.completed_tasks = self.completed_tasks

\* A scale-up has just run while a task is live and a task is in history,
\* and a request that fits and a name that is live are at hand.
C14_Witness ==
    /\ last.op = "auto_scale" /\ last.out = "up"
    /\ Len(self.task_queue) >= 1 /\ Len(self.completed_tasks) >= 1
    /\ \E r \in Requests : r # EmptyReq /\ ~Short(self, r)

\* C15: in every reachable state where utilization > 80 and auto-scaling is
\* enabled, an auto_scale invocation strictly increases total capacity, so
\* repeated invocations keep growing capacity for as long as utilization
\* stays above 80.
C15_ScaleUpGrows ==
    (Over80(self) /\ self.auto_scaling_ready) =>
        TotalCapacity(auto_scale(self).self) > TotalCapacity(self)

\* The balancer with the allocation vector a over the same capacities.
WithAllocation(s, a) == [s EXCEPT !.agent_allocation = a]
\* Allocation vectors over the pools of the capacity table, and increments.
SmallVectors == [DOMAIN self.agent_capacity -> 0..MaxCount]
\* u <= v for two fractions with positive denominators.  The doubles the
\* code returns are ordered as the fractions are, with <= for <, since
\* both roundings of a / c * 100 are monotonic.
FracLE(u, v) == u[1] * v[2] <= v[1] * u[2]

\* C16: for a fixed capacity table and two allocation vectors a and b with
\* b[p] >= a[p] for every pool p, utilization under b is >= utilization
\* under a; and utilization is 0 whenever total capacity is 0.
C16_UtilizationMonotonic ==
    /\ \A a \in SmallVectors, d \in SmallVectors :
          LET b == [p \in DOMAIN a |-> a[p] + d[p]] IN
          FracLE(calculate_utilization(WithAllocation(self, a)),
                 calculate_utilization(WithAllocation(self, b)))
    /\ \A a \in SmallVectors :
          TotalCapacity(self) = 0 =>
              calculate_utilization(WithAllocation(self, a))[1] = 0

\* An assign_task has just raised a pool's allocation under a capacity table
\* that is not empty, so that utilization has been computed on both sides.
C16_Witness ==
    /\ last.op = "assign_task" /\ last.ret = "true"
    /\ \E p \in DOMAIN last.req : Allocated(self, p) >= last.req[p]
    /\ TotalCapacity(self) > 0
    /\ calculate_utilization(self)[1] > 0

\* The indices of the live tasks that have the name.
Named(queue, n) == {i \in 1..Len(queue) : queue[i].name = n}
\* The index of the earliest live task of the name.
Earliest(queue, n) ==
    CHOOSE i \in Named(queue, n) : \A j \in Named(queue, n) : i <= j

\* C17: when several live tasks share the name given to complete_task, the
\* call completes exactly one of them, the first in the live list: only its
\* reservation is released, only it moves to the history, and the other
\* tasks of the name stay live, with their reservations and their order.
C17_EarliestDuplicateCompleted ==
    \A n \in TaskNames, now \in clock..MaxTime :
        Cardinality(Named(self.task_queue, n)) >= 2 =>
            LET q == self.task_queue
                i == Earliest(q, n)
                c == complete_task(self, n, now)
            IN
            /\ c.out = "completed"
            /\ c.self.task_queue = Without(q, i)
            /\ c.self.completed_tasks =
                  Append(self.completed_tasks,
                         [q[i] EXCEPT !.status = "completed",
                                      !.end_time = now])
            /\ \A p \in KnownNames \cup AllPools :
                  Allocated(c.self, p) =
                      Allocated(self, p) - Get(q[i].agents, p, 0)
            /\ Cardinality(Named(c.self.task_queue, n)) =
                  Cardinality(Named(q, n)) - 1

\* A task has just been completed while a task of the same name with another
\* reservation stays live, and the ledger holds the live one's reservation.
C17_Witness ==
    /\ last.op = "complete_task" /\ last.out = "completed"
    /\ Len(self.task_queue) = 1 /\ Len(self.completed_tasks) = 1
    /\ self.task_queue[1].name = last.name
    /\ self.completed_tasks[1].name = last.name
    /\ self.task_queue[1].agents # self.completed_tasks[1].agents
    /\ \E p \in DOMAIN self.task_queue[1].agents :
          Allocated(self, p) = self.task_queue[1].agents[p]

\* C18: in every reachable state every live task t and every pool p of its
\* reservation have allocated[p] >= t.reservation[p], so complete_task
\* decrements allocated[p] by exactly the reserved count and the clamp at 0
\* in release_agent never changes the result.
C18_ReleaseFloorNotExercised ==
    LET q == self.task_queue IN
    /\ \A i \in 1..Len(q) : \A p \in DOMAIN q[i].agents :
          Allocated(self, p) >= q[i].agents[p]
    /\ \A n \in TaskNames, now \in clock..MaxTime :
          ~NoLive(self, n) =>
              \A p \in KnownNames \cup AllPools :
                  Allocated(complete_task(self, n, now).self, p) =
                      Allocated(self, p)
                          - Get(q[Earliest(q, n)].agents, p, 0)

\* A task has just been completed that shared a pool with a task that is
\* still live, and the pool's allocation is down to the live reservation.
C18_Witness ==
    /\ last.op = "complete_task" /\ last.out = "completed"
    /\ Len(self.task_queue) = 1 /\ Len(self.completed_tasks) = 1
    /\ \E p \in DOMAIN self.task_queue[1].agents
                    \cap DOMAIN self.completed_tasks[1].agents :
          Allocated(self, p) = self.task_queue[1].agents[p]

\* C19: after any auto_scale invocation that takes the scale-down branch, no
\* pool's capacity is larger than it was before the invocation, and so total
\* capacity has not increased.
C19_ScaleDownOnlyShrinks ==
    LET st == auto_scale(self) IN
    st.out = "down" =>
        /\ \A p \in DOMAIN self.agent_capacity :
              Capacity(st.self, p) <= Capacity(self, p)
        /\ TotalCapacity(st.self) <= TotalCapacity(self)

\* C20: with allocations unchanged in between, two consecutive auto_scale
\* invocations never take opposite branches: right after a scale-up
\* utilization is not below 30, and right after a scale-down utilization is
\* not above 80.
C20_NoThrash ==
    LET st == auto_scale(self) IN
    /\ st.out = "up" =>
          /\ ~Under30(st.self)
          /\ auto_scale(st.self).out # "down"
    /\ st.out = "down" =>
          /\ ~Over80(st.self)
          /\ auto_scale(st.self).out # "up"

\* A scale-up has just taken a saturated table to a utilization between the
\* two thresholds, with the reservations that saturated it still live.
C20_Witness ==
    /\ last.op = "auto_scale" /\ last.out = "up"
    /\ Len(self.task_queue) >= 1
    /\ ~Over80(self) /\ ~Under30(self)
    /\ 100 * TotalAllocated(self) < 80 * TotalCapacity(self)

====
